---- MODULE Spec2Model ----
(***************************************************************************)
(* Model of build.py: main() runs `cargo build --release` as a child       *)
(* process and, when it returns status 0, copies the directory `res` to    *)
(* `build/res` (shutil.copytree, dirs_exist_ok=True) and then the          *)
(* executable to `build` (shutil.copy).  Otherwise it prints               *)
(* "Build failed".                                                         *)
(*                                                                         *)
(* The filesystem is modelled as far as main() reads or writes it:         *)
(*   res    the source resources directory: whether it exists, and for     *)
(*          each relative path the content of the file there (0: no file)  *)
(*   exe    content of target/release/raytracer_wgpu.exe (0: no file)      *)
(*   build  what is at the path `build`: nothing, a regular file, or a     *)
(*          directory holding build/res (with its files), the copied       *)
(*          executable and one file that is no artifact                    *)
(***************************************************************************)
EXTENDS Integers, Sequences, FiniteSets, TLC

\* ---- bounds of the model ------------------------------------------------
NumPaths == 2     \* relative file paths under res: 1..NumPaths
MaxContent == 2   \* file contents: 1..MaxContent
MaxStatus == 1    \* exit statuses of the toolchain: 0..MaxStatus

Paths == 1..NumPaths
Contents == 1..MaxContent
MaybeContent == 0..MaxContent
Statuses == 0..MaxStatus

VARIABLES
    pc,          \* position in main()
    step,        \* index of the next statement of the success branch
    result,      \* <<>> before subprocess.run returned, then <<returncode>>
    inspected,   \* line 8 has evaluated result.returncode
    res,         \* the directory res
    exe,         \* target/release/raytracer_wgpu.exe
    build,       \* the path build
    buildAtStart, \* the path build as this run found it
    written,     \* paths under build that this run created or modified
    stdout,      \* lines printed by this run
    invocations, \* child processes started by this run
    error,       \* the exception that left main(), "none" if none
    exitCode,    \* <<>> while running, then <<status of the interpreter>>
    secondRun,   \* this is a second invocation of the script
    prev         \* how the previous invocation ended

vars == <<pc, step, result, inspected, res, exe, build, buildAtStart, written, stdout,
          invocations, error, exitCode, secondRun, prev>>

\* ---- filesystem values --------------------------------------------------
NoFiles == [p \in Paths |-> 0]

AbsentBuild ==
    [kind |-> "absent", file |-> 0, resDir |-> FALSE, resFiles |-> NoFiles,
     exe |-> 0, other |-> 0]

FileBuild(c) ==
    [kind |-> "file", file |-> c, resDir |-> FALSE, resFiles |-> NoFiles,
     exe |-> 0, other |-> 0]

DirBuilds ==
    { b \in [kind : {"dir"}, file : {0}, resDir : BOOLEAN,
             resFiles : [Paths -> MaybeContent], exe : MaybeContent,
             other : MaybeContent] :
        ~b.resDir => b.resFiles = NoFiles }

Builds == {AbsentBuild} \cup {FileBuild(c) : c \in Contents} \cup DirBuilds

ResTrees ==
    { r \in [exists : BOOLEAN, files : [Paths -> MaybeContent]] :
        ~r.exists => r.files = NoFiles }

NoPrev == [pc |-> "none", result |-> <<>>, res |-> [exists |-> FALSE, files |-> NoFiles],
           exe |-> 0, build |-> AbsentBuild, error |-> "none"]

\* the name of build/res/<p>
ResPath(p) == "build/res/" \o ToString(p)

\* ---- the statements of main() -------------------------------------------

\* variant: the test of line 8 inverted
ReturnCodeInverted(rc) == rc # 0

\* line 8: result.returncode == 0
ReturnCodeOk(rc) == rc = 0

\* variant: copytree called without dirs_exist_ok
DirsExistOkDefault == FALSE

\* line 12: the dirs_exist_ok argument of copytree
DirsExistOk == TRUE

\* variant: the executable copied before the resources
StageOrderCopyFirst == <<"copy", "copytree">>

\* lines 12-13: the statements of the success branch, in program order
StageOrder == <<"copytree", "copy">>

\* variant: a failed spawn handled like a failed build
OnSpawnErrorAsFailure == "failed"

\* line 6: subprocess.run lets the OSError of a failed spawn propagate
OnSpawnError == "fatal"

\* variant: a failed build is retried
OnBuildFailedRetry == "idle"

\* lines 14-15: the else branch prints and main() returns
OnBuildFailed == "failed"

\* lines 18-19: main() returns no status, so the interpreter exits 0 after a
\* normal return and 1 after an uncaught exception
ExitStatus(err) == IF err = "none" THEN 0 ELSE 1

\* variant: files that exist in the destination are kept, not overwritten
CopyTreeNoOverwrite(src, b) ==
    IF ~src.exists
    THEN [build |-> b, written |-> {}, error |-> "FileNotFoundError: res"]
    ELSE IF b.kind = "file"
    THEN [build |-> b, written |-> {}, error |-> "NotADirectoryError: build/res"]
    ELSE [build |-> [b EXCEPT !.kind = "dir", !.resDir = TRUE,
                       !.resFiles = [p \in Paths |->
                           IF b.resFiles[p] = 0 THEN src.files[p] ELSE b.resFiles[p]]],
          written |-> (IF b.kind = "absent" THEN {"build"} ELSE {})
                      \cup {"build/res"}
                      \cup {ResPath(p) : p \in {q \in Paths :
                                src.files[q] # 0 /\ b.resFiles[q] = 0}},
          error |-> "none"]

\* variant: the destination is removed and written afresh
CopyTreeReplace(src, b) ==
    IF ~src.exists
    THEN [build |-> b, written |-> {}, error |-> "FileNotFoundError: res"]
    ELSE IF b.kind = "file"
    THEN [build |-> b, written |-> {}, error |-> "NotADirectoryError: build/res"]
    ELSE [build |-> [b EXCEPT !.kind = "dir", !.resDir = TRUE, !.resFiles = src.files],
          written |-> (IF b.kind = "absent" THEN {"build"} ELSE {})
                      \cup {"build/res"}
                      \cup {ResPath(p) : p \in {q \in Paths :
                                src.files[q] # 0 \/ b.resFiles[q] # 0}},
          error |-> "none"]

\* variant: the destination directories are made before the source is read
CopyTreeMakedirsFirst(src, b) ==
    IF b.kind = "file"
    THEN [build |-> b, written |-> {}, error |-> "NotADirectoryError: build/res"]
    ELSE IF ~src.exists
    THEN [build |-> [b EXCEPT !.kind = "dir", !.resDir = TRUE],
          written |-> (IF b.kind = "absent" THEN {"build"} ELSE {})
                      \cup (IF b.resDir THEN {} ELSE {"build/res"}),
          error |-> "FileNotFoundError: res"]
    ELSE [build |-> [b EXCEPT !.kind = "dir", !.resDir = TRUE,
                       !.resFiles = [p \in Paths |->
                           IF src.files[p] # 0 THEN src.files[p] ELSE b.resFiles[p]]],
          written |-> (IF b.kind = "absent" THEN {"build"} ELSE {})
                      \cup {"build/res"}
                      \cup {ResPath(p) : p \in {q \in Paths : src.files[q] # 0}},
          error |-> "none"]

\* shutil.copytree(res_dir, "build/res", dirs_exist_ok=DirsExistOk):
\*   os.scandir(src) raises when src is missing, before anything is made;
\*   os.makedirs(dst, exist_ok) creates build and build/res as needed;
\*   every entry of src is copied over the entry of the same name in dst;
\*   copystat(src, dst) ends it.
\* The value is the new build, the paths written and the exception raised.
CopyTree(src, b) ==
    IF ~src.exists
    THEN [build |-> b, written |-> {}, error |-> "FileNotFoundError: res"]
    ELSE IF b.kind = "file"
    THEN [build |-> b, written |-> {}, error |-> "NotADirectoryError: build/res"]
    ELSE IF b.kind = "dir" /\ b.resDir /\ ~DirsExistOk
    THEN [build |-> b, written |-> {}, error |-> "FileExistsError: build/res"]
    ELSE [build |-> [b EXCEPT !.kind = "dir", !.resDir = TRUE,
                       !.resFiles = [p \in Paths |->
                           IF src.files[p] # 0 THEN src.files[p] ELSE b.resFiles[p]]],
          written |-> (IF b.kind = "absent" THEN {"build"} ELSE {})
                      \cup {"build/res"}
                      \cup {ResPath(p) : p \in {q \in Paths : src.files[q] # 0}},
          error |-> "none"]

\* shutil.copy(executable, "build"): the destination is
\* build/raytracer_wgpu.exe when build is a directory and the path build
\* itself otherwise; the source is opened before the destination.
Copy(e, b) ==
    IF e = 0
    THEN [build |-> b, written |-> {}, error |-> "FileNotFoundError: exe"]
    ELSE IF b.kind = "dir"
    THEN [build |-> [b EXCEPT !.exe = e], written |-> {"build/exe"}, error |-> "none"]
    ELSE [build |-> FileBuild(e), written |-> {"build (file)"}, error |-> "none"]

\* main() is entered on any res and any build; nothing has been built yet,
\* so the executable's path holds no file until the toolchain leaves one
Init ==
    /\ pc = "idle"
    /\ step = 1
    /\ result = <<>>
    /\ inspected = FALSE
    /\ res \in ResTrees
    /\ exe = 0
    /\ build \in Builds
    /\ buildAtStart = build
    /\ written = {}
    /\ stdout = <<>>
    /\ invocations = 0
    /\ error = "none"
    /\ exitCode = <<>>
    /\ secondRun = FALSE
    /\ prev = NoPrev

Terminal == pc \in {"staged", "failed", "fatal"}

\* line 6, Popen: the child is started
StartToolchain ==
    /\ pc = "idle"
    /\ pc' = "building"
    /\ invocations' = invocations + 1
    /\ UNCHANGED <<step, result, inspected, res, exe, build, buildAtStart, written,
                   stdout, error, exitCode, secondRun, prev>>

\* line 6, Popen: cargo is not found or cannot be executed
ToolchainNotFound ==
    /\ pc = "idle"
    /\ pc' = OnSpawnError
    /\ error' = IF OnSpawnError = "fatal" THEN "FileNotFoundError: cargo" ELSE "none"
    /\ exitCode' = IF OnSpawnError = "fatal" THEN <<ExitStatus("FileNotFoundError: cargo")>>
                   ELSE exitCode
    /\ UNCHANGED <<step, result, inspected, res, exe, build, buildAtStart, written,
                   stdout, invocations, secondRun, prev>>

\* line 6, wait: the child terminates with a status; a build that succeeds
\* leaves what it leaves at the executable's path, one that fails leaves the
\* path as it was
ToolchainExit ==
    /\ pc = "building"
    /\ \E rc \in Statuses :
         /\ result' = <<rc>>
         /\ \/ rc = 0 /\ exe' \in MaybeContent
            \/ rc # 0 /\ exe' = exe
    /\ pc' = "check"
    /\ UNCHANGED <<step, inspected, res, build, buildAtStart, written, stdout, invocations,
                   error, exitCode, secondRun, prev>>

\* line 8, true branch
CheckSuccess ==
    /\ pc = "check"
    /\ ReturnCodeOk(result[1])
    /\ inspected' = TRUE
    /\ pc' = "stage"
    /\ step' = 1
    /\ UNCHANGED <<result, res, exe, build, buildAtStart, written, stdout, invocations,
                   error, exitCode, secondRun, prev>>

\* lines 8, 14, 15: false branch, print("Build failed"), main() returns
BuildFailed ==
    /\ pc = "check"
    /\ ~ReturnCodeOk(result[1])
    /\ inspected' = TRUE
    /\ stdout' = Append(stdout, "Build failed")
    /\ pc' = OnBuildFailed
    /\ exitCode' = IF OnBuildFailed = "failed" THEN <<ExitStatus("none")>> ELSE exitCode
    /\ UNCHANGED <<step, result, res, exe, build, buildAtStart, written, invocations,
                   error, secondRun, prev>>

\* one statement of the success branch has run with outcome r
AfterStatement(r) ==
    /\ build' = r.build
    /\ written' = written \cup r.written
    /\ error' = r.error
    /\ IF r.error # "none"
       THEN /\ pc' = "fatal"
            /\ exitCode' = <<ExitStatus(r.error)>>
            /\ step' = step
       ELSE IF step = Len(StageOrder)
       THEN /\ pc' = "staged"
            /\ exitCode' = <<ExitStatus("none")>>
            /\ step' = step
       ELSE /\ pc' = "stage"
            /\ exitCode' = exitCode
            /\ step' = step + 1

\* line 12
CopyTreeStep ==
    /\ pc = "stage"
    /\ StageOrder[step] = "copytree"
    /\ AfterStatement(CopyTree(res, build))
    /\ UNCHANGED <<result, inspected, res, exe, buildAtStart, stdout, invocations,
                   secondRun, prev>>

\* line 13
CopyStep ==
    /\ pc = "stage"
    /\ StageOrder[step] = "copy"
    /\ AfterStatement(Copy(exe, build))
    /\ UNCHANGED <<result, inspected, res, exe, buildAtStart, stdout, invocations,
                   secondRun, prev>>

Next ==
    \/ StartToolchain
    \/ ToolchainNotFound
    \/ ToolchainExit
    \/ CheckSuccess
    \/ BuildFailed
    \/ CopyTreeStep
    \/ CopyStep

Spec == Init /\ [][Next]_vars

\* lines 18-19: the script is run again after it ended; the new process
\* starts main() afresh on the filesystem the first run left.
Rerun ==
    /\ Terminal
    /\ ~secondRun
    /\ secondRun' = TRUE
    /\ prev' = [pc |-> pc, result |-> result, res |-> res, exe |-> exe,
                build |-> build, error |-> error]
    /\ pc' = "idle"
    /\ step' = 1
    /\ result' = <<>>
    /\ inspected' = FALSE
    /\ written' = {}
    /\ stdout' = <<>>
    /\ invocations' = 0
    /\ error' = "none"
    /\ exitCode' = <<>>
    /\ buildAtStart' = build
    /\ UNCHANGED <<res, exe, build>>

NextTwice == Next \/ Rerun

SpecTwice == Init /\ [][NextTwice]_vars

\* ---- the claims ---------------------------------------------------------

ExitedNonZero == result # <<>> /\ result[1] # 0
ExitedZero == result = <<0>>

\* C1 as stated: at the end of every run, build was written if and only if
\* the toolchain's exit status is 0, and after any other exit status nothing
\* under build was created or modified and "Build failed" was printed.
C1_StagingIffExitZero ==
    Terminal =>
        /\ (written # {}) <=> ExitedZero
        /\ ExitedNonZero =>
              /\ written = {}
              /\ build = buildAtStart
              /\ stdout = <<"Build failed">>

\* C1 amended: build is written only if the toolchain's exit status is 0
\* (status 0 is necessary, not sufficient), and at the end of a run whose
\* toolchain exited with another status nothing under build was created or
\* modified and "Build failed" was printed.
C1_StagingOnlyIfExitZero ==
    /\ (written # {} \/ build # buildAtStart) => ExitedZero
    /\ (Terminal /\ ExitedNonZero) =>
          /\ written = {}
          /\ build = buildAtStart
          /\ stdout = <<"Build failed">>

C1_Witness ==
    /\ pc = "failed"
    /\ ExitedNonZero
    /\ buildAtStart.kind = "dir"
    /\ res.exists
    /\ stdout = <<"Build failed">>

\* exit status 0, executable and resources directory present, and build
\* absent or a directory when the run started
BothArtifactsPresent ==
    /\ ExitedZero
    /\ res.exists
    /\ exe # 0
    /\ buildAtStart.kind # "file"

\* C2 as stated: after a run with exit status 0 and both artifacts present,
\* build/res holds exactly the files of res with the same contents, and
\* build holds the executable, whatever build held before.
C2_ExactCopy ==
    (Terminal /\ BothArtifactsPresent) =>
        /\ pc = "staged"
        /\ build.kind = "dir"
        /\ build.resDir
        /\ build.resFiles = res.files
        /\ build.exe = exe

\* C2 amended: after such a run every file of res is in build/res at the
\* same relative path with the same content, replacing what was there, and
\* build holds the executable; files of build/res at paths that res does not
\* have are kept as they were (the copy merges into the destination).
C2_MergedCopy ==
    (Terminal /\ BothArtifactsPresent) =>
        /\ pc = "staged"
        /\ build.kind = "dir"
        /\ build.resDir
        /\ \A p \in Paths :
              build.resFiles[p] = IF res.files[p] # 0 THEN res.files[p]
                                  ELSE buildAtStart.resFiles[p]
        /\ build.exe = exe

C2_Witness ==
    /\ pc = "staged"
    /\ BothArtifactsPresent
    /\ \E p \in Paths :
          /\ res.files[p] # 0
          /\ buildAtStart.resFiles[p] # 0
          /\ buildAtStart.resFiles[p] # res.files[p]
          /\ build.resFiles[p] = res.files[p]
    /\ buildAtStart.exe # 0
    /\ buildAtStart.exe # exe

\* C3: the interpreter exits 0 when staging succeeded and non-zero whenever
\* the toolchain exited with a non-zero status.
C3_ExitCode ==
    Terminal =>
        /\ pc = "staged" => exitCode = <<0>>
        /\ ExitedNonZero => (exitCode # <<>> /\ exitCode[1] # 0)

\* C4: exit status 0, executable present, resources directory missing: the
\* run ends in an uncaught error raised for the missing directory, prints no
\* "Build failed", and has written nothing to build.
C4_MissingResIsFatal ==
    (ExitedZero /\ exe # 0 /\ ~res.exists) =>
        /\ stdout = <<>>
        /\ written = {}
        /\ build = buildAtStart
        /\ pc \notin {"staged", "failed"}
        /\ Terminal =>
              /\ pc = "fatal"
              /\ error = "FileNotFoundError: res"
              /\ exitCode = <<1>>

C4_Witness ==
    /\ pc = "fatal"
    /\ ExitedZero
    /\ exe # 0
    /\ ~res.exists
    /\ buildAtStart.kind = "dir"
    /\ error = "FileNotFoundError: res"

\* C5: at the end of every run either both the resources tree and the
\* executable were staged into build or neither was.
C5_AllOrNothing ==
    Terminal => (("build/res" \in written) <=> ("build/exe" \in written))

\* C6: when the toolchain exits 0 in two successive runs that find the same
\* res and the same executable, the second run ends as the first did
\* and leaves build exactly as the first run left it.
C6_Idempotent ==
    (secondRun /\ Terminal /\ ExitedZero /\ prev.result = <<0>> /\ exe = prev.exe
       /\ res = prev.res) =>
        /\ build = prev.build
        /\ pc = prev.pc
        /\ error = prev.error

C6_Witness ==
    /\ secondRun
    /\ pc = "staged"
    /\ prev.pc = "staged"
    /\ exe = prev.exe
    /\ \E p \in Paths : res.files[p] # 0
    /\ build = prev.build
    /\ "build/res" \in written

\* C7: in every state of every run, the files of build that are no artifact
\* path are as the run found them: the file beside the artifacts, and every
\* file of build/res at a path that res does not have.
C7_UnrelatedUntouched ==
    buildAtStart.kind = "dir" =>
        /\ build.kind = "dir"
        /\ build.other = buildAtStart.other
        /\ \A p \in Paths :
              res.files[p] = 0 => build.resFiles[p] = buildAtStart.resFiles[p]

C7_Witness ==
    /\ pc = "staged"
    /\ buildAtStart.kind = "dir"
    /\ buildAtStart.other # 0
    /\ build.other = buildAtStart.other
    /\ \E p \in Paths : res.files[p] # 0
    /\ \E p \in Paths : res.files[p] = 0 /\ buildAtStart.resFiles[p] # 0

\* the order of the positions of main()
Follows(from, to) ==
    \/ from = "idle" /\ to \in {"building", "fatal"}
    \/ from = "building" /\ to = "check"
    \/ from = "check" /\ to \in {"stage", "failed"}
    \/ from = "stage" /\ to \in {"stage", "staged", "fatal"}

C8_State ==
    /\ invocations <= 1
    /\ pc \in {"building", "check", "stage", "staged", "failed"} => invocations = 1
    /\ (written # {} \/ build # buildAtStart) => (result # <<>> /\ pc \in {"stage", "staged", "fatal"})
    /\ pc \in {"stage", "staged"} => ExitedZero
    /\ pc = "building" <=> (invocations = 1 /\ result = <<>>)
    /\ Len(stdout) <= 1
    /\ pc = "failed" <=> (ExitedNonZero /\ stdout = <<"Build failed">>)
    /\ pc # "failed" => stdout = <<>>

C8_Step ==
    /\ ~Terminal
    /\ pc' # pc => Follows(pc, pc')
    /\ invocations' # invocations => (pc = "idle" /\ pc' = "building")
    /\ stdout' # stdout => (pc = "check" /\ pc' = "failed")

\* C8: a run goes from idle to building to staged or failed: the toolchain
\* is started once, nothing is copied before it has terminated, no step is
\* taken from a state in which the run has ended, and a failed build is not
\* retried and is reported once.
C8_Lifecycle == [](C8_State) /\ [][C8_Step]_vars

C8_Witness ==
    /\ pc = "failed"
    /\ invocations = 1
    /\ stdout = <<"Build failed">>
    /\ ExitedNonZero

\* C9: when the toolchain cannot be started the run ends at once in an
\* uncaught error: no exit status exists or is inspected, nothing is written
\* to build and "Build failed" is not printed.
C9_ToolchainNotFoundIsFatal ==
    (pc # "idle" /\ invocations = 0) =>
        /\ pc = "fatal"
        /\ error = "FileNotFoundError: cargo"
        /\ result = <<>>
        /\ ~inspected
        /\ written = {}
        /\ build = buildAtStart
        /\ stdout = <<>>
        /\ exitCode = <<1>>

C9_Witness ==
    /\ pc = "fatal"
    /\ invocations = 0
    /\ error = "FileNotFoundError: cargo"
    /\ res.exists
    /\ buildAtStart.kind = "dir"

\* C10: the executable is copied only after the resources copy has
\* completed, it is never written at the path build itself, and whenever a
\* run has staged, build is a directory that holds build/res and the
\* executable.
C10_BuildIsDirectory ==
    /\ "build (file)" \notin written
    /\ "build/exe" \in written => "build/res" \in written
    /\ buildAtStart.kind # "file" => build.kind # "file"
    /\ pc = "staged" =>
          /\ build.kind = "dir"
          /\ build.resDir
          /\ exe # 0
          /\ build.exe = exe

C10_Witness ==
    /\ pc = "staged"
    /\ buildAtStart.kind = "absent"
    /\ res.exists
    /\ res.files = NoFiles
    /\ build.kind = "dir"
    /\ build.resDir
    /\ build.resFiles = NoFiles
    /\ build.exe = exe

====
